---- MODULE Spec2Model ----
(***************************************************************************)
(* Model of the ESTsoft chatbot's ingestion and retrieval engine:          *)
(*   scripts/build_embeddings.py  load_qa_pairs, build_points, main        *)
(*   backend/embedder.py          Embedder.embed                           *)
(*   backend/retriever.py         Retriever.search                         *)
(*   backend/main.py              query_endpoint                           *)
(* Text is a sequence of one-character strings, so that strip(), upper(),  *)
(* startswith() and slicing are computed as Python computes them.          *)
(***************************************************************************)
EXTENDS Integers, Sequences, FiniteSets, TLC

(***************************************************************************)
(* Bounds of the model.                                                    *)
(***************************************************************************)
\* longest table given to load_qa_pairs
MaxRows == 4

\* largest number of hits the vector index answers a search with (top_k)
MaxTopK == 2

\* number of digests of the stand-in for MD5
DigestSpace == 4

(***************************************************************************)
(* Python str operations used by load_qa_pairs.                            *)
(***************************************************************************)
\* str.isspace() of one character
IsSpace(ch) == ch = " "

\* str.upper() of one character
UpperChar(ch) ==
    CASE ch = "a" -> "A"
      [] ch = "b" -> "B"
      [] ch = "c" -> "C"
      [] ch = "d" -> "D"
      [] ch = "q" -> "Q"
      [] OTHER -> ch

\* str.upper()
Upper(s) == [i \in 1..Len(s) |-> UpperChar(s[i])]

\* str.lstrip()
RECURSIVE LStrip(_)
LStrip(s) == IF s # <<>> /\ IsSpace(Head(s)) THEN LStrip(Tail(s)) ELSE s

\* str.rstrip()
RECURSIVE RStrip(_)
RStrip(s) ==
    IF s # <<>> /\ IsSpace(s[Len(s)]) THEN RStrip(SubSeq(s, 1, Len(s) - 1)) ELSE s

\* str.strip()
Strip(s) == RStrip(LStrip(s))

\* str.startswith(prefix)
StartsWith(s, prefix) ==
    Len(s) >= Len(prefix) /\ SubSeq(s, 1, Len(prefix)) = prefix

\* the slice value[2:]
Slice2(s) == SubSeq(s, 3, Len(s))

\* str(n) of a row number, as its decimal digits
RECURSIVE Digits(_)
Digits(n) ==
    LET d == <<"0", "1", "2", "3", "4", "5", "6", "7", "8", "9">>
    IN  IF n < 10 THEN <<d[n + 1]>> ELSE Digits(n \div 10) \o <<d[(n % 10) + 1]>>

(***************************************************************************)
(* Cells of the workbook as pandas hands them over.  A content cell is a   *)
(* str or something else (NaN, a number); a group cell is missing (NaN),   *)
(* an integer, or a str that int() rejects.                                *)
(***************************************************************************)
TextCell(s) == [t |-> "str", s |-> s]
NonTextCell == [t |-> "nan", s |-> <<>>]

GroupInt(n) == [t |-> "int", v |-> n]
GroupNaN == [t |-> "nan", v |-> 0]
GroupBad == [t |-> "str", v |-> 0]

Row(b, c) == [b |-> b, c |-> c]

\* the row shapes load_qa_pairs tells apart
Rows ==
    { Row(GroupInt(7), TextCell(<<"Q", ".", " ", "a">>)),
      Row(GroupNaN,    TextCell(<<"q", ".", "b", " ">>)),
      Row(GroupBad,    TextCell(<<"Q", ".", " ", "a">>)),
      Row(GroupNaN,    TextCell(<<"A", ".", " ", "c">>)),
      Row(GroupInt(8), TextCell(<<" ", "a", ".", "d">>)),
      Row(GroupBad,    TextCell(<<"A", ".", " ", "c">>)),
      Row(GroupNaN,    TextCell(<<"Q", ".", " ">>)),
      Row(GroupNaN,    TextCell(<<"A", ".">>)),
      Row(GroupNaN,    TextCell(<<"Q", "a">>)),
      Row(GroupInt(7), TextCell(<<" ">>)),
      Row(GroupNaN,    NonTextCell) }

\* rows of a sheet that has no third column
NarrowRows == { Row(GroupInt(7), NonTextCell), Row(GroupNaN, NonTextCell) }

SeqsUpTo(S, n) == UNION { [1..k -> S] : k \in 0..n }

\* a workbook: df.shape[1] and the rows of the frame
Tables ==
    { [ncols |-> 3, rows |-> r] : r \in SeqsUpTo(Rows, MaxRows) }
      \cup { [ncols |-> 2, rows |-> r] : r \in SeqsUpTo(NarrowRows, 2) }

(***************************************************************************)
(* load_qa_pairs                                                           *)
(***************************************************************************)
\* col_c: column 2 of the frame, or an empty Series when it has no column 2
ColC(tbl) == IF tbl.ncols > 2 THEN [i \in 1..Len(tbl.rows) |-> tbl.rows[i].c] ELSE <<>>

\* col_b: column 1 of the frame, or an empty Series
ColB(tbl) == IF tbl.ncols > 1 THEN [i \in 1..Len(tbl.rows) |-> tbl.rows[i].b] ELSE <<>>

\* cell.strip() if isinstance(cell, str) else ""
CellValue(cell) == IF cell.t = "str" THEN Strip(cell.s) ELSE <<>>

\* value.upper().startswith("Q.")
IsQuestionMarker(value) == StartsWith(Upper(value), <<"Q", ".">>)

\* answer_value.upper().startswith("A.")
IsAnswerMarker(value) == StartsWith(Upper(value), <<"A", ".">>)

\* col_b.loc[row_idx] if row_idx in col_b.index else None  (idx is 0-based)
GroupAt(col_b, row_idx) ==
    IF row_idx + 1 \in DOMAIN col_b THEN col_b[row_idx + 1] ELSE GroupNaN

\* pd.isna(group_raw)
IsNa(cell) == cell.t = "nan"

\* group_raw as lines 77-79 leave it
GroupRaw(col_b, row_idx, next_row_idx) ==
    IF IsNa(GroupAt(col_b, row_idx))
    THEN GroupAt(col_b, next_row_idx)
    ELSE GroupAt(col_b, row_idx)

\* int(group_raw) succeeds
IntConvertible(cell) == cell.t = "int"

\* the mutant of SourceTag that names the rows by their 0-based positions
SourceTagZeroBased(row_idx, next_row_idx) ==
    <<"xlsx_row_C">> \o Digits(row_idx) \o <<"_C">> \o Digits(next_row_idx)

\* f"xlsx_row_C{row_idx + 1}_C{next_row_idx + 1}"
SourceTag(row_idx, next_row_idx) ==
    <<"xlsx_row_C">> \o Digits(row_idx + 1) \o <<"_C">> \o Digits(next_row_idx + 1)

QAPair(q, a, g, src) == [question |-> q, answer |-> a, group_id |-> g, source |-> src]

ScanState(i, pairs, pc, err) == [idx |-> i, qa_pairs |-> pairs, pc |-> pc, err |-> err]

NoErr == [kind |-> "none", rows |-> <<>>]
ValueError(kind, rows) == [kind |-> kind, rows |-> rows]

\* the mutant of ScanStep that moves the cursor by one after a pair
ScanStepAdvanceOne(tbl, idx, pairs) ==
    LET col_c == ColC(tbl)
        value == CellValue(col_c[idx + 1])
        answer_value == CellValue(col_c[idx + 2])
        group_raw == GroupRaw(ColB(tbl), idx, idx + 1)
    IN  IF ~IsQuestionMarker(value)
        THEN ScanState(idx + 1, pairs, "scan", NoErr)
        ELSE IF \/ Strip(Slice2(value)) = <<>>
                \/ idx + 1 >= Len(col_c)
                \/ ~IsAnswerMarker(answer_value)
                \/ Strip(Slice2(answer_value)) = <<>>
                \/ ~IntConvertible(group_raw)
        THEN ScanState(idx, pairs, "raised", ValueError("Malformed", <<idx + 1>>))
        ELSE ScanState(idx + 1,
                       Append(pairs, QAPair(Strip(Slice2(value)), Strip(Slice2(answer_value)),
                                            group_raw.v, SourceTag(idx, idx + 1))),
                       "scan", NoErr)

\* the mutant of ScanStep that skips a row it cannot pair instead of raising
ScanStepLenient(tbl, idx, pairs) ==
    LET col_c == ColC(tbl)
        value == CellValue(col_c[idx + 1])
        answer_value == CellValue(col_c[idx + 2])
        group_raw == GroupRaw(ColB(tbl), idx, idx + 1)
    IN  IF /\ IsQuestionMarker(value)
           /\ Strip(Slice2(value)) # <<>>
           /\ idx + 1 < Len(col_c)
           /\ IsAnswerMarker(answer_value)
           /\ Strip(Slice2(answer_value)) # <<>>
           /\ IntConvertible(group_raw)
        THEN ScanState(idx + 2,
                       Append(pairs, QAPair(Strip(Slice2(value)), Strip(Slice2(answer_value)),
                                            group_raw.v, SourceTag(idx, idx + 1))),
                       "scan", NoErr)
        ELSE ScanState(idx + 1, pairs, "scan", NoErr)

\* one iteration of the while loop at cursor idx (0-based), lines 46-92
ScanStep(tbl, idx, pairs) ==
    LET col_c == ColC(tbl)
        col_b == ColB(tbl)
        value == CellValue(col_c[idx + 1])
        question == Strip(Slice2(value))
        answer_value == CellValue(col_c[idx + 2])
        answer == Strip(Slice2(answer_value))
        group_raw == GroupRaw(col_b, idx, idx + 1)
    IN  IF IsQuestionMarker(value)
        THEN IF question = <<>>
             THEN ScanState(idx, pairs, "raised", ValueError("EmptyQuestion", <<idx + 1>>))
             ELSE IF idx + 1 >= Len(col_c)
             THEN ScanState(idx, pairs, "raised", ValueError("MissingAnswer", <<idx + 1>>))
             ELSE IF ~IsAnswerMarker(answer_value)
             THEN ScanState(idx, pairs, "raised",
                            ValueError("ExpectedAnswer", <<idx + 1, idx + 2>>))
             ELSE IF answer = <<>>
             THEN ScanState(idx, pairs, "raised", ValueError("EmptyAnswer", <<idx + 2>>))
             ELSE IF ~IntConvertible(group_raw)
             THEN ScanState(idx, pairs, "raised",
                            ValueError("InvalidGroup", <<idx + 1, idx + 2>>))
             ELSE ScanState(idx + 2,
                            Append(pairs, QAPair(question, answer, group_raw.v,
                                                 SourceTag(idx, idx + 1))),
                            "scan", NoErr)
        ELSE ScanState(idx + 1, pairs, "scan", NoErr)

\* the mutant of ScanFinish that returns an empty list
ScanFinishAllowEmpty(idx, pairs) == ScanState(idx, pairs, "returned", NoErr)

\* lines 94-97: the check after the loop
ScanFinish(idx, pairs) ==
    IF Len(pairs) = 0
    THEN ScanState(idx, pairs, "raised", ValueError("NoPairs", <<>>))
    ELSE ScanState(idx, pairs, "returned", NoErr)

\* the whole of load_qa_pairs, from cursor idx on
RECURSIVE ScanFrom(_, _, _)
ScanFrom(tbl, idx, pairs) ==
    IF idx < Len(ColC(tbl))
    THEN LET st == ScanStep(tbl, idx, pairs)
         IN  IF st.pc = "raised" THEN st ELSE ScanFrom(tbl, st.idx, st.qa_pairs)
    ELSE ScanFinish(idx, pairs)

load_qa_pairs(tbl) == ScanFrom(tbl, 0, <<>>)

(***************************************************************************)
(* Embedder.embed                                                          *)
(***************************************************************************)
\* self._max_retries
MaxRetries == 3

\* self._retry_delay
RetryDelay == 2

\* embedding vectors the provider may answer with
Vectors == {"v1", "v2"}

\* what one call of self._client.embeddings.create(...) can do: answer with a
\* vector, answer with an empty data list, or raise OpenAIError (a provider
\* error, or openai.APITimeoutError when timeout=30 expires) or
\* httpx.HTTPError (a transport error, or httpx.TimeoutException)
Outcome(k, v) == [k |-> k, vec |-> v]
ProviderFailures == {"OpenAIError", "HTTPError"}
ProviderOutcomes ==
    { Outcome("ok", v) : v \in Vectors }
      \cup { Outcome(k, "none") : k \in ProviderFailures \cup {"EmptyData"} }

\* except (OpenAIError, httpx.HTTPError)
Caught(outcome) == outcome.k \in ProviderFailures

CallEvent(outcome) == [ev |-> "call", outcome |-> outcome.k, delay |-> 0, vec |-> outcome.vec]
SleepEvent(d) == [ev |-> "sleep", outcome |-> "none", delay |-> d, vec |-> "none"]
IsCall(event) == event.ev = "call"
IsSleep(event) == event.ev = "sleep"

EmbedState(pc, att, log, res) == [pc |-> pc, attempt |-> att, log |-> log, result |-> res]

Returned(v) == [kind |-> "vector", vec |-> v]
Raised(exc) == [kind |-> exc, vec |-> "none"]
NoResult == [kind |-> "none", vec |-> "none"]

\* the mutant of BackoffDelay that grows with the square of the attempt
BackoffDelayQuadratic(att) == RetryDelay * att * att

\* the mutant of BackoffDelay that waits the base delay every time
BackoffDelayConstant(att) == RetryDelay

\* time.sleep(self._retry_delay * attempt)
BackoffDelay(att) == RetryDelay * att

\* the mutant of EmbedCheckInput that sends every text to the provider
EmbedCheckInputSkipped(text, log) == EmbedState("try", 1, log, NoResult)

\* lines 33-34: the input check, before the retry loop
EmbedCheckInput(text, log) ==
    IF text = <<>>
    THEN EmbedState("raised", 0, log, Raised("EmbeddingError"))
    ELSE EmbedState("try", 1, log, NoResult)

\* lines 36-52: one pass through the retry loop, the provider answering `outcome`
EmbedIteration(att, log, outcome) ==
    IF att > MaxRetries
    THEN EmbedState("raised", att, log, Raised("EmbeddingError"))
    ELSE LET called == Append(log, CallEvent(outcome))
         IN  IF outcome.k = "ok"
             THEN EmbedState("returned", att, called, Returned(outcome.vec))
             ELSE IF ~Caught(outcome)
             THEN EmbedState("raised", att, called, Raised("IndexError"))
             ELSE IF att >= MaxRetries
             THEN EmbedState("raised", att, called, Raised("EmbeddingError"))
             ELSE EmbedState("try", att + 1,
                             Append(called, SleepEvent(BackoffDelay(att))), NoResult)

\* texts given to embed
Texts == { <<>>, <<" ">>, <<"a">>, <<"b">> }

(***************************************************************************)
(* Retriever.search                                                        *)
(* Scores are in hundredths (0.82 is 82); a score or a payload that is     *)
(* None is a record with some = FALSE.                                     *)
(***************************************************************************)
\* Settings.sim_threshold, the default of SIM_THRESHOLD, in hundredths
SimThreshold == 82

\* the fixed answer text of lines 66 and 75 (Korean for "no search results")
NoResultsText == "no-results-text"

\* the warning text of lines 68 and 85
LowConfidenceWarning == "low-confidence(score<threshold)"

None == [some |-> FALSE, val |-> 0]
Some(v) == [some |-> TRUE, val |-> v]

\* a payload dict: the keys it has, with their values
Dict(keys, vals) == [some |-> TRUE, d |-> [k \in keys |-> vals[k]]]
NoPayload == [some |-> FALSE, d |-> <<>>]
EmptyDict == [some |-> TRUE, d |-> <<>>]

Hit(score, payload) == [score |-> score, payload |-> payload]

HitScores == { None, Some(70), Some(82), Some(90) }

HitPayloads ==
    { NoPayload,
      EmptyDict,
      Dict({"answer", "question", "source"},
           [answer |-> "A1", question |-> "Q1", source |-> "S1"]),
      Dict({"answer", "question"}, [answer |-> "", question |-> "Q2"]),
      Dict({"answer", "source"}, [answer |-> "A2", source |-> "S2"]) }

Hits == { Hit(sc, pl) : sc \in HitScores, pl \in HitPayloads }

\* what self._client.search(...) can do: answer with up to top_k hits, or raise
IndexReply(k, hits) == [k |-> k, hits |-> hits]
IndexReplies ==
    { IndexReply("hits", h) : h \in SeqsUpTo(Hits, MaxTopK) }
      \cup { IndexReply("error", <<>>) }

\* top_hit.payload or {}
PayloadOrEmpty(payload) == IF payload.some THEN payload.d ELSE <<>>

\* payload.get("answer") or the fixed text
AnswerOr(payload) ==
    IF "answer" \in DOMAIN payload /\ payload["answer"] # ""
    THEN payload["answer"]
    ELSE NoResultsText

\* the mutant of LowConfidence that also warns at the threshold
LowConfidenceInclusive(score) == ~score.some \/ score.val <= SimThreshold

\* top_hit.score is None or top_hit.score < self._threshold
LowConfidence(score) == ~score.some \/ score.val < SimThreshold

\* the mutant of TopHitResponse that also warns when it has no answer to give
TopHitResponseWarnsOnFallback(top_hit) ==
    LET payload == PayloadOrEmpty(top_hit.payload)
        base == [k \in {"answer", "score"} |->
                    IF k = "answer" THEN Some(AnswerOr(payload))
                    ELSE IF top_hit.score.some THEN Some(top_hit.score.val) ELSE None]
        copied == [k \in {"question", "source"} \cap DOMAIN payload |-> Some(payload[k])]
        warned == IF LowConfidence(top_hit.score) \/ AnswerOr(payload) = NoResultsText
                  THEN [k \in {"warning"} |-> Some(LowConfidenceWarning)]
                  ELSE <<>>
    IN  base @@ copied @@ warned

\* the dict built by lines 71-87 for the first hit
TopHitResponse(top_hit) ==
    LET payload == PayloadOrEmpty(top_hit.payload)
        base == [k \in {"answer", "score"} |->
                    IF k = "answer" THEN Some(AnswerOr(payload))
                    ELSE IF top_hit.score.some THEN Some(top_hit.score.val) ELSE None]
        copied == [k \in {"question", "source"} \cap DOMAIN payload |-> Some(payload[k])]
        warned == IF LowConfidence(top_hit.score)
                  THEN [k \in {"warning"} |-> Some(LowConfidenceWarning)]
                  ELSE <<>>
    IN  base @@ copied @@ warned

\* the mutant of NoHitResponse that leaves the warning out
NoHitResponseWithoutWarning ==
    [k \in {"answer", "score"} |-> IF k = "answer" THEN Some(NoResultsText) ELSE None]

\* the dict returned by lines 63-69 when there is no hit
NoHitResponse ==
    [k \in {"answer", "score", "warning"} |->
        IF k = "answer" THEN Some(NoResultsText)
        ELSE IF k = "score" THEN None
        ELSE Some(LowConfidenceWarning)]

SearchReturned(resp) == [kind |-> "dict", resp |-> resp]
SearchRaised(exc) == [kind |-> exc, resp |-> <<>>]
NoSearchResult == [kind |-> "none", resp |-> <<>>]

\* the mutant of Search that builds its result from the last hit
SearchLastHit(reply) ==
    IF reply.k = "error"
    THEN SearchRaised("RetrievalError")
    ELSE IF reply.hits = <<>>
    THEN SearchReturned(NoHitResponse)
    ELSE SearchReturned(TopHitResponse(reply.hits[Len(reply.hits)]))

\* Retriever.search, the index answering `reply`
Search(reply) ==
    IF reply.k = "error"
    THEN SearchRaised("RetrievalError")
    ELSE IF reply.hits = <<>>
    THEN SearchReturned(NoHitResponse)
    ELSE SearchReturned(TopHitResponse(reply.hits[1]))

(***************************************************************************)
(* query_endpoint                                                          *)
(***************************************************************************)
QueryOutcome(kind, detail, resp) == [kind |-> kind, detail |-> detail, resp |-> resp]
NoOutcome == QueryOutcome("none", "", <<>>)

\* number of requests handled at the same time
NumInvocations == 2
Invocations == 1..NumInvocations

\* the locals of one request: where query_endpoint is, and the locals of its
\* calls of embed and search
Invocation(pc, text, e, reply, s, outcome) ==
    [pc |-> pc, text |-> text, e |-> e, reply |-> reply, s |-> s, outcome |-> outcome]
IdleInvocation ==
    Invocation("idle", <<>>, EmbedState("idle", 0, <<>>, NoResult),
               IndexReply("none", <<>>), NoSearchResult, NoOutcome)

\* a request that has just entered query_endpoint with the query `text`
NewInvocation(text) ==
    Invocation("embed", text, EmbedState("start", 0, <<>>, NoResult),
               IndexReply("none", <<>>), NoSearchResult, NoOutcome)

\* the mutant of LoopAttempt that keeps one counter for all the requests
LoopAttemptShared(invs, p) ==
    CHOOSE a \in { invs[q].e.attempt : q \in DOMAIN invs } :
        \A q \in DOMAIN invs : invs[q].e.attempt <= a

\* embedder.py line 36: `attempt` is a local of the call of embed made by p
LoopAttempt(invs, p) == invs[p].e.attempt

\* what the provider and the index answer to the requests handled together
ConcurrentTexts == { <<>>, <<"a">> }
ConcurrentOutcomes ==
    { Outcome("ok", "v1"), Outcome("OpenAIError", "none"), Outcome("EmptyData", "none") }
ConcurrentReplies ==
    { IndexReply("error", <<>>),
      IndexReply("hits", <<>>),
      IndexReply("hits", <<Hit(Some(90), Dict({"answer"}, [k \in {"answer"} |-> "A1"]))>>),
      IndexReply("hits", <<Hit(Some(70), NoPayload)>>) }

\* main.py lines 19-21: the objects every request uses, with the fields
\* their constructors set
Singletons ==
    [embedder |-> [_model |-> "text-embedding-3-small",
                   _max_retries |-> MaxRetries,
                   _retry_delay |-> RetryDelay],
     retriever |-> [_collection |-> "QDRANT_COLLECTION",
                    _threshold |-> SimThreshold,
                    _top_k |-> MaxTopK]]

\* lines 68-75: what the handler does with the end of embed
AfterEmbed(result) ==
    IF result.kind = "vector"
    THEN QueryOutcome("none", "", <<>>)
    ELSE IF result.kind = "EmbeddingError"
    THEN QueryOutcome("HTTP_503", "Embedding service unavailable", <<>>)
    ELSE QueryOutcome("exception", result.kind, <<>>)

\* lines 77-91: what the handler does with the end of search
AfterSearch(result) ==
    IF result.kind = "RetrievalError"
    THEN QueryOutcome("HTTP_503", "Vector search unavailable", <<>>)
    ELSE IF result.kind # "dict"
    THEN QueryOutcome("HTTP_500", "Invalid retrieval response", <<>>)
    ELSE QueryOutcome("answer", "", result.resp)

(***************************************************************************)
(* build_points, ensure_collection and main of build_embeddings.py         *)
(***************************************************************************)
\* rows of the workbooks given to an ingestion run
IngestRows ==
    { Row(GroupInt(7), TextCell(<<"Q", ".", " ", "a">>)),
      Row(GroupNaN,    TextCell(<<"q", ".", "b", " ">>)),
      Row(GroupNaN,    TextCell(<<"A", ".", " ", "c">>)),
      Row(GroupInt(8), TextCell(<<" ", "a", ".", "d">>)) }

IngestTables == { [ncols |-> 3, rows |-> r] : r \in SeqsUpTo(IngestRows, MaxRows) }

\* text.encode("utf-8"), for the characters of the model
Utf8(text) ==
    [i \in 1..Len(text) |->
        CASE text[i] = "a" -> 97
          [] text[i] = "b" -> 98
          [] text[i] = "c" -> 99
          [] text[i] = "d" -> 100
          [] text[i] = "l" -> 108
          [] text[i] = "o" -> 111
          [] OTHER -> 32]

RECURSIVE ByteSum(_)
ByteSum(bytes) == IF bytes = <<>> THEN 0 ELSE Head(bytes) + ByteSum(Tail(bytes))

\* hashlib.md5(bytes).hexdigest(): a fixed function of the bytes.  A checksum
\* stands for it: equal byte strings have equal digests, different ones may collide
Md5HexDigest(bytes) == ByteSum(bytes) % DigestSpace

\* the mutant of PointId that hashes the question and the answer
PointIdOfQuestionAndAnswer(pair) == Md5HexDigest(Utf8(pair.question \o pair.answer))

\* line 119: hashlib.md5(pair.question.encode("utf-8")).hexdigest()
PointId(pair) == Md5HexDigest(Utf8(pair.question))

\* the mutant of BuildPoint that stores the question as the answer
BuildPointSwapped(pair, embedding) ==
    [id |-> PointId(pair),
     vector |-> embedding,
     payload |-> [question |-> pair.question,
                  answer |-> pair.question,
                  source |-> pair.source,
                  group_id |-> pair.group_id]]

\* lines 119-126: the PointStruct of one pair
BuildPoint(pair, embedding) ==
    [id |-> PointId(pair),
     vector |-> embedding,
     payload |-> [question |-> pair.question,
                  answer |-> pair.answer,
                  source |-> pair.source,
                  group_id |-> pair.group_id]]

\* the vector index's upsert: insert or overwrite by id, in list order
RECURSIVE UpsertPoints(_, _)
UpsertPoints(stored, pts) ==
    IF pts = <<>>
    THEN stored
    ELSE UpsertPoints((Head(pts).id :> Head(pts)) @@ stored, Tail(pts))

\* the collection of the vector index
NoCollection == [exists |-> FALSE, size |-> 0, distance |-> "none", stored |-> <<>>]
Collection(size, distance, stored) ==
    [exists |-> TRUE, size |-> size, distance |-> distance, stored |-> stored]

\* VectorParams(size=1536, distance=Distance.COSINE)
VectorSize == 1536
CreatedCollection == Collection(VectorSize, "Cosine", <<>>)

\* a point left by an earlier run for the question "a"
OldPoint ==
    BuildPoint(QAPair(<<"a">>, <<"o", "l", "d">>, 1, SourceTag(0, 1)), "v1")

\* the collection before the run: absent, empty, or holding OldPoint
InitialCollections ==
    { NoCollection,
      CreatedCollection,
      Collection(VectorSize, "Cosine", (OldPoint.id :> OldPoint)) }

\* what client.get_collection can do: answer, raise UnexpectedResponse, or
\* raise another exception (no connection)
GetCollectionOutcomes(coll) ==
    (IF coll.exists THEN {"ok"} ELSE {"UnexpectedResponse"}) \cup {"ConnectionError"}

IndexCall(op, outcome) == [op |-> op, outcome |-> outcome]

(***************************************************************************)
(* Retriever.__init__ and _ensure_collection                               *)
(***************************************************************************)
\* a collection of the same name made for another embedding model or metric
OtherVectorSize == VectorSize * 2
StartupCollections ==
    InitialCollections \cup
        { Collection(OtherVectorSize, "Cosine", <<>>),
          Collection(VectorSize, "Euclid", <<>>) }

\* what a call of the index client can do besides answering: raise
\* UnexpectedResponse (the index refused) or another exception (no connection)
ClientFailures == {"UnexpectedResponse", "ResponseHandlingException"}
ExistsOutcomes == {"answer"} \cup ClientFailures
CreateOutcomes == {"ok"} \cup ClientFailures

RetrieverState(pc, err, coll, log) ==
    [pc |-> pc, err |-> err, collection |-> coll, log |-> log]

\* lines 46-47: the except clause of _ensure_collection
EnsureFailure(exc) ==
    IF exc = "UnexpectedResponse" THEN "RetrievalError" ELSE exc

\* lines 34-47: _ensure_collection, called by line 32 of the constructor
EnsureCollection(coll, exists_outcome, create_outcome) ==
    IF exists_outcome # "answer"
    THEN RetrieverState("raised", EnsureFailure(exists_outcome), coll,
                        <<IndexCall("collection_exists", exists_outcome)>>)
    ELSE IF coll.exists
    THEN RetrieverState("ready", "none", coll,
                        <<IndexCall("collection_exists", "True")>>)
    ELSE IF create_outcome = "ok"
    THEN RetrieverState("ready", "none", CreatedCollection,
                        <<IndexCall("collection_exists", "False"),
                          IndexCall("create_collection", "ok")>>)
    ELSE RetrieverState("raised", EnsureFailure(create_outcome), coll,
                        <<IndexCall("collection_exists", "False"),
                          IndexCall("create_collection", create_outcome)>>)

MainState(pc, code) == [pc |-> pc, exit_code |-> code]

\* the mutant of AfterLoad that goes on after a failed extraction
AfterLoadIgnoringFailure(pc) == MainState("setup", -1)

\* lines 135-141: main after load_qa_pairs has returned or raised
AfterLoad(pc) ==
    IF pc = "raised" THEN MainState("done", 1) ELSE MainState("setup", -1)

BuildState(pc, i, pts, code) == [pc |-> pc, m_i |-> i, points |-> pts, exit_code |-> code]

\* the mutant of BuildStep that skips a pair whose embedding failed
BuildStepSkippingFailed(result, pair, i, pts) ==
    IF result.kind = "vector"
    THEN BuildState("build", i + 1, Append(pts, BuildPoint(pair, result.vec)), -1)
    ELSE BuildState("build", i + 1, pts, -1)

\* build_points, lines 118-126, for the pair at position i once embed has ended;
\* an exception of embed leaves build_points and main (lines 151-156)
BuildStep(result, pair, i, pts) ==
    IF result.kind = "vector"
    THEN BuildState("build", i + 1, Append(pts, BuildPoint(pair, result.vec)), -1)
    ELSE BuildState("done", i, pts, 1)

\* lines 149-156 of main after build_points: upsert if there are points
AfterBuild(pts, outcome) ==
    IF pts = <<>>
    THEN MainState("done", 0)
    ELSE IF outcome = "ok" THEN MainState("done", 0) ELSE MainState("done", 1)

(***************************************************************************)
(* State.                                                                  *)
(***************************************************************************)
VARIABLES
    table,      \* the workbook read by load_qa_pairs
    idx,        \* load_qa_pairs: the scan cursor (0-based)
    qa_pairs,   \* load_qa_pairs: the records extracted so far
    x_pc,       \* load_qa_pairs: "scan", "returned" or "raised"
    x_err,      \* load_qa_pairs: the ValueError raised
    e_pc,       \* embed: "idle", "start", "try", "returned" or "raised"
    e_text,     \* embed: the text argument
    attempt,    \* embed: the loop variable
    e_log,      \* embed: provider calls and sleeps of this call, in order
    e_result,   \* embed: the vector returned or the exception raised
    s_pc,       \* search: "idle", "call", "returned" or "raised"
    s_vector,   \* search: the vector argument
    s_reply,    \* search: what the vector index answered
    s_result,   \* search: the dict returned or the exception raised
    s_calls,    \* number of calls of self._client.search so far
    q_pc,       \* query_endpoint: "idle", "embed", "search" or "done"
    q_outcome,  \* query_endpoint: what the caller gets
    calls,      \* number of calls of the embedding provider so far
    collection, \* the collection of the vector index
    m_pc,       \* main: "idle", "load", "setup", "ensure", "build", "embedding", "done"
    m_i,        \* build_points: position of the pair being embedded (1-based)
    points,     \* build_points: the points built so far
    m_log,      \* main: the calls of the vector index, in order
    exit_code,  \* main: the value returned, -1 while running
    r_pc,       \* Retriever(): "idle", "init", "ready" or "raised"
    r_err,      \* Retriever(): the exception that left the constructor
    r_log,      \* Retriever(): the calls of the vector index, in order
    inv,        \* the requests being handled at the same time, each with its locals
    objects     \* the fields of the module's embedder and retriever objects

xvars == <<table, idx, qa_pairs, x_pc, x_err>>
evars == <<e_pc, e_text, attempt, e_log, e_result, calls>>
svars == <<s_pc, s_vector, s_reply, s_result, s_calls>>
qvars == <<q_pc, q_outcome>>
mvars == <<collection, m_pc, m_i, points, m_log, exit_code>>
rvars == <<r_pc, r_err, r_log>>
cvars == <<inv, objects>>
vars == <<table, idx, qa_pairs, x_pc, x_err, e_pc, e_text, attempt, e_log, e_result,
          s_pc, s_vector, s_reply, s_result, s_calls, q_pc, q_outcome,
          calls, collection, m_pc, m_i, points, m_log, exit_code,
          r_pc, r_err, r_log, inv, objects>>

\* load_qa_pairs not running
ExtractIdle ==
    /\ table = [ncols |-> 3, rows |-> <<>>]
    /\ idx = 0
    /\ qa_pairs = <<>>
    /\ x_pc = "idle"
    /\ x_err = NoErr

\* embed not called
EmbedIdle ==
    /\ e_pc = "idle"
    /\ e_text = <<>>
    /\ attempt = 0
    /\ e_log = <<>>
    /\ e_result = NoResult
    /\ calls = 0

\* search not called
SearchIdle ==
    /\ s_pc = "idle"
    /\ s_vector = "none"
    /\ s_reply = IndexReply("none", <<>>)
    /\ s_result = NoSearchResult
    /\ s_calls = 0

\* no request being handled
QueryIdle ==
    /\ q_pc = "idle"
    /\ q_outcome = NoOutcome

\* no ingestion run
MainIdle ==
    /\ collection = NoCollection
    /\ m_pc = "idle"
    /\ m_i = 0
    /\ points = <<>>
    /\ m_log = <<>>
    /\ exit_code = -1

\* no Retriever under construction
RetrieverIdle ==
    /\ r_pc = "idle"
    /\ r_err = "none"
    /\ r_log = <<>>

\* no requests handled at the same time
ConcurrentIdle ==
    /\ inv = [p \in Invocations |-> IdleInvocation]
    /\ objects = Singletons

(***************************************************************************)
(* Steps of load_qa_pairs, embed and search.                               *)
(***************************************************************************)
\* one pass through the loop body of load_qa_pairs
ScanRow ==
    /\ x_pc = "scan"
    /\ idx < Len(ColC(table))
    /\ LET st == ScanStep(table, idx, qa_pairs)
       IN  /\ idx' = st.idx
           /\ qa_pairs' = st.qa_pairs
           /\ x_pc' = st.pc
           /\ x_err' = st.err
    /\ UNCHANGED <<table, evars, svars, qvars, rvars, cvars, mvars>>

\* the loop condition fails: the check after the loop, and the return
ScanEnd ==
    /\ x_pc = "scan"
    /\ idx >= Len(ColC(table))
    /\ LET st == ScanFinish(idx, qa_pairs)
       IN  /\ x_pc' = st.pc
           /\ x_err' = st.err
    /\ UNCHANGED <<table, idx, qa_pairs, evars, svars, qvars, rvars, cvars, mvars>>

\* embed: the input check
EmbedCheck ==
    /\ e_pc = "start"
    /\ LET st == EmbedCheckInput(e_text, e_log)
       IN  /\ e_pc' = st.pc
           /\ attempt' = st.attempt
           /\ e_log' = st.log
           /\ e_result' = st.result
    /\ UNCHANGED <<e_text, calls, xvars, svars, qvars, rvars, cvars, mvars>>

\* embed: one pass through the retry loop
EmbedAttempt ==
    /\ e_pc = "try"
    /\ \E outcome \in ProviderOutcomes :
         LET st == EmbedIteration(attempt, e_log, outcome)
         IN  /\ e_pc' = st.pc
             /\ attempt' = st.attempt
             /\ e_log' = st.log
             /\ e_result' = st.result
             /\ calls' = calls + Len(SelectSeq(st.log, IsCall)) - Len(SelectSeq(e_log, IsCall))
    /\ UNCHANGED <<e_text, xvars, svars, qvars, rvars, cvars, mvars>>

\* search: the call of the index and the building of the result
SearchCall ==
    /\ s_pc = "call"
    /\ \E reply \in IndexReplies :
         LET res == Search(reply)
         IN  /\ s_reply' = reply
             /\ s_result' = res
             /\ s_pc' = IF res.kind = "dict" THEN "returned" ELSE "raised"
    /\ s_calls' = s_calls + 1
    /\ UNCHANGED <<s_vector, xvars, evars, qvars, rvars, cvars, mvars>>

(***************************************************************************)
(* SpecExtract: load_qa_pairs on every workbook of Tables, one loop        *)
(* iteration per step.                                                     *)
(***************************************************************************)
ExtractInit ==
    /\ table \in Tables
    /\ idx = 0
    /\ qa_pairs = <<>>
    /\ x_pc = "scan"
    /\ x_err = NoErr
    /\ EmbedIdle
    /\ SearchIdle
    /\ QueryIdle
    /\ RetrieverIdle
    /\ ConcurrentIdle
    /\ MainIdle

ExtractNext == ScanRow \/ ScanEnd

SpecExtract == ExtractInit /\ [][ExtractNext]_vars

(***************************************************************************)
(* SpecEmbed: one call of Embedder.embed on every text of Texts, against   *)
(* a provider that answers each request in any of its ways.                *)
(***************************************************************************)
EmbedInit ==
    /\ ExtractIdle
    /\ e_pc = "start"
    /\ e_text \in Texts
    /\ attempt = 0
    /\ e_log = <<>>
    /\ e_result = NoResult
    /\ calls = 0
    /\ SearchIdle
    /\ QueryIdle
    /\ RetrieverIdle
    /\ ConcurrentIdle
    /\ MainIdle

EmbedNext == EmbedCheck \/ EmbedAttempt

SpecEmbed == EmbedInit /\ [][EmbedNext]_vars

(***************************************************************************)
(* SpecSearch: one call of Retriever.search, the index answering in any    *)
(* of its ways.                                                            *)
(***************************************************************************)
SearchInit ==
    /\ ExtractIdle
    /\ EmbedIdle
    /\ s_pc = "call"
    /\ s_vector \in Vectors
    /\ s_reply = IndexReply("none", <<>>)
    /\ s_result = NoSearchResult
    /\ s_calls = 0
    /\ QueryIdle
    /\ RetrieverIdle
    /\ ConcurrentIdle
    /\ MainIdle

SearchNext == SearchCall

SpecSearch == SearchInit /\ [][SearchNext]_vars

(***************************************************************************)
(* SpecQuery: one request handled by query_endpoint.                       *)
(***************************************************************************)
QueryInit ==
    /\ ExtractIdle
    /\ e_pc = "start"
    /\ e_text \in Texts
    /\ attempt = 0
    /\ e_log = <<>>
    /\ e_result = NoResult
    /\ calls = 0
    /\ SearchIdle
    /\ q_pc = "embed"
    /\ q_outcome = NoOutcome
    /\ RetrieverIdle
    /\ ConcurrentIdle
    /\ MainIdle

\* the mutant of QueryEmbedDone that searches whatever way embed ended
QueryEmbedDoneAlwaysSearches ==
    /\ q_pc = "embed"
    /\ e_pc \in {"returned", "raised"}
    /\ q_pc' = "search"
    /\ s_pc' = "call"
    /\ s_vector' = e_result.vec
    /\ UNCHANGED <<q_outcome, s_reply, s_result, s_calls, xvars, evars, mvars, rvars, cvars>>

\* embed has ended: lines 68-75, and the call of retriever.search
QueryEmbedDone ==
    /\ q_pc = "embed"
    /\ e_pc \in {"returned", "raised"}
    /\ LET out == AfterEmbed(e_result)
       IN  IF e_result.kind = "vector"
           THEN /\ q_pc' = "search"
                /\ s_pc' = "call"
                /\ s_vector' = e_result.vec
                /\ UNCHANGED q_outcome
           ELSE /\ q_pc' = "done"
                /\ q_outcome' = out
                /\ UNCHANGED <<s_pc, s_vector>>
    /\ UNCHANGED <<s_reply, s_result, s_calls, xvars, evars, mvars, rvars, cvars>>

\* search has ended: lines 77-91
QuerySearchDone ==
    /\ q_pc = "search"
    /\ s_pc \in {"returned", "raised"}
    /\ q_pc' = "done"
    /\ q_outcome' = AfterSearch(s_result)
    /\ UNCHANGED <<xvars, evars, svars, mvars, rvars, cvars>>

QueryNext ==
    \/ EmbedCheck
    \/ EmbedAttempt
    \/ QueryEmbedDone
    \/ SearchCall
    \/ QuerySearchDone

SpecQuery == QueryInit /\ [][QueryNext]_vars

(***************************************************************************)
(* SpecIngest: one run of main of build_embeddings.py.                     *)
(***************************************************************************)
FileNotFound == [kind |-> "FileNotFoundError", rows |-> <<>>]

IngestInit ==
    /\ \/ /\ table \in IngestTables
          /\ x_pc = "scan"
          /\ x_err = NoErr
       \/ /\ table = [ncols |-> 3, rows |-> <<>>]   \* data/QA_data.xlsx is missing
          /\ x_pc = "raised"
          /\ x_err = FileNotFound
    /\ idx = 0
    /\ qa_pairs = <<>>
    /\ EmbedIdle
    /\ SearchIdle
    /\ QueryIdle
    /\ RetrieverIdle
    /\ ConcurrentIdle
    /\ collection \in InitialCollections
    /\ m_pc = "load"
    /\ m_i = 0
    /\ points = <<>>
    /\ m_log = <<>>
    /\ exit_code = -1

\* lines 135-141: load_qa_pairs has returned or raised
MainLoaded ==
    /\ m_pc = "load"
    /\ x_pc \in {"returned", "raised"}
    /\ LET st == AfterLoad(x_pc)
       IN  /\ m_pc' = st.pc
           /\ exit_code' = st.exit_code
    /\ UNCHANGED <<collection, m_i, points, m_log, xvars, evars, svars, qvars, rvars, cvars>>

\* lines 144-146: get_settings(), Embedder(), QdrantClient(...), which may raise
MainSetup ==
    /\ m_pc = "setup"
    /\ \E ok \in BOOLEAN :
         IF ok
         THEN m_pc' = "ensure" /\ UNCHANGED exit_code
         ELSE m_pc' = "done" /\ exit_code' = 1
    /\ UNCHANGED <<collection, m_i, points, m_log, xvars, evars, svars, qvars, rvars, cvars>>

\* line 147: ensure_collection (lines 100-110)
MainEnsureCollection ==
    /\ m_pc = "ensure"
    /\ \E got \in GetCollectionOutcomes(collection), created \in {"ok", "error"} :
         IF got = "ok"
         THEN /\ m_log' = Append(m_log, IndexCall("get_collection", got))
              /\ m_pc' = "build"
              /\ m_i' = 1
              /\ UNCHANGED <<collection, exit_code>>
         ELSE IF got = "UnexpectedResponse"
         THEN /\ m_log' = m_log \o <<IndexCall("get_collection", got),
                                      IndexCall("create_collection", created)>>
              /\ IF created = "ok"
                 THEN /\ collection' = CreatedCollection
                      /\ m_pc' = "build"
                      /\ m_i' = 1
                      /\ UNCHANGED exit_code
                 ELSE /\ m_pc' = "done"
                      /\ exit_code' = 1
                      /\ UNCHANGED <<collection, m_i>>
         ELSE /\ m_log' = Append(m_log, IndexCall("get_collection", got))
              /\ m_pc' = "done"
              /\ exit_code' = 1
              /\ UNCHANGED <<collection, m_i>>
    /\ UNCHANGED <<points, xvars, evars, svars, qvars, rvars, cvars>>

\* build_points, line 118: the call of embedder.embed for the next pair
MainEmbedCall ==
    /\ m_pc = "build"
    /\ m_i <= Len(qa_pairs)
    /\ m_pc' = "embedding"
    /\ e_pc' = "start"
    /\ e_text' = qa_pairs[m_i].question
    /\ attempt' = 0
    /\ e_log' = <<>>
    /\ e_result' = NoResult
    /\ UNCHANGED <<calls, collection, m_i, points, m_log, exit_code, xvars, svars, qvars, rvars, cvars>>

\* build_points, lines 119-126, or the except clauses of main, lines 151-156
MainEmbedDone ==
    /\ m_pc = "embedding"
    /\ e_pc \in {"returned", "raised"}
    /\ LET st == BuildStep(e_result, qa_pairs[m_i], m_i, points)
       IN  /\ m_pc' = st.pc
           /\ m_i' = st.m_i
           /\ points' = st.points
           /\ exit_code' = st.exit_code
    /\ UNCHANGED <<collection, m_log, xvars, evars, svars, qvars, rvars, cvars>>

\* lines 149-159: build_points has returned; the upsert and the return
MainUpsert ==
    /\ m_pc = "build"
    /\ m_i > Len(qa_pairs)
    /\ \E outcome \in {"ok", "error"} :
         LET st == AfterBuild(points, outcome)
         IN  /\ m_pc' = st.pc
             /\ exit_code' = st.exit_code
             /\ m_log' = IF points = <<>> THEN m_log
                         ELSE Append(m_log, IndexCall("upsert", outcome))
             /\ collection' =
                  IF points # <<>> /\ outcome = "ok"
                  THEN [collection EXCEPT !.stored = UpsertPoints(@, points)]
                  ELSE collection
    /\ UNCHANGED <<m_i, points, xvars, evars, svars, qvars, rvars, cvars>>

IngestNext ==
    \/ ScanRow
    \/ ScanEnd
    \/ MainLoaded
    \/ MainSetup
    \/ MainEnsureCollection
    \/ MainEmbedCall
    \/ EmbedCheck
    \/ EmbedAttempt
    \/ MainEmbedDone
    \/ MainUpsert

SpecIngest == IngestInit /\ [][IngestNext]_vars

(***************************************************************************)
(* Properties of load_qa_pairs (SpecExtract).                              *)
(***************************************************************************)
\* the trimmed text of a content cell after its two-character prefix, trimmed
TextAfterPrefix(cell) == Strip(SubSeq(Strip(cell.s), 3, Len(Strip(cell.s))))

\* a text cell whose trimmed text starts with `letter` (either case) and "."
HasPrefix(cell, letter) ==
    /\ cell.t = "str"
    /\ Len(Strip(cell.s)) >= 2
    /\ Strip(cell.s)[1] \in letter
    /\ Strip(cell.s)[2] = "."

QRow(row) == HasPrefix(row.c, {"Q", "q"}) /\ TextAfterPrefix(row.c) # <<>>
ARow(row) == HasPrefix(row.c, {"A", "a"}) /\ TextAfterPrefix(row.c) # <<>>

\* Q-row, A-row, Q-row, A-row, ...: at least one pair, the group cells integers
\* or missing, and an integer in at least one of the two rows of each pair
WellFormed(tbl) ==
    /\ tbl.ncols = 3
    /\ Len(tbl.rows) >= 2
    /\ Len(tbl.rows) % 2 = 0
    /\ \A i \in 1..Len(tbl.rows) :
         /\ tbl.rows[i].b.t \in {"int", "nan"}
         /\ IF i % 2 = 1 THEN QRow(tbl.rows[i]) ELSE ARow(tbl.rows[i])
    /\ \A i \in 1..(Len(tbl.rows) \div 2) :
         tbl.rows[2 * i - 1].b.t = "int" \/ tbl.rows[2 * i].b.t = "int"

\* C1: on a well-formed alternating table load_qa_pairs does not fail and
\* returns rows/2 records in document order, record i made of the trimmed
\* texts of rows 2i-1 and 2i (1-based), both non-empty, its source naming
\* the 1-based positions of those two rows.
C1_WellFormedTableYieldsHalfTheRows ==
    WellFormed(table) =>
        /\ x_pc # "raised"
        /\ x_pc = "returned" =>
             /\ Len(qa_pairs) = Len(table.rows) \div 2
             /\ \A i \in 1..Len(qa_pairs) :
                  /\ qa_pairs[i].question = TextAfterPrefix(table.rows[2 * i - 1].c)
                  /\ qa_pairs[i].answer = TextAfterPrefix(table.rows[2 * i].c)
                  /\ qa_pairs[i].question # <<>>
                  /\ qa_pairs[i].answer # <<>>
                  /\ qa_pairs[i].source =
                       <<"xlsx_row_C">> \o Digits(2 * i - 1) \o <<"_C">> \o Digits(2 * i)

\* a well-formed table of two pairs has been extracted
C1_Witness ==
    /\ x_pc = "returned"
    /\ WellFormed(table)
    /\ Len(table.rows) = 4
    /\ Len(qa_pairs) = 2
    /\ qa_pairs[1].question # qa_pairs[2].question

\* the row at 0-based position i is a question marker with no answer marker
\* in the row after it
QuestionWithoutAnswer(tbl, i) ==
    /\ i < Len(ColC(tbl))
    /\ HasPrefix(ColC(tbl)[i + 1], {"Q", "q"})
    /\ ~(i + 1 < Len(ColC(tbl)) /\ HasPrefix(ColC(tbl)[i + 2], {"A", "a"}))

\* C2: when the cursor is on a question marker that no answer marker follows,
\* the step raises, whatever was extracted before; and load_qa_pairs returns
\* only from tables in which every question marker is followed by an answer
\* marker.
C2_QuestionWithoutAnswerRaises ==
    /\ [][(x_pc = "scan" /\ QuestionWithoutAnswer(table, idx)) => x_pc' = "raised"]_vars
    /\ [](x_pc = "returned" =>
            \A i \in 0..(Len(table.rows) - 1) : ~QuestionWithoutAnswer(table, i))
    /\ [](x_pc = "raised" => x_err.kind # "none")

\* a question with no answer has raised after an earlier pair was extracted
C2_Witness ==
    /\ x_pc = "raised"
    /\ x_err.kind \in {"MissingAnswer", "ExpectedAnswer"}
    /\ QuestionWithoutAnswer(table, idx)
    /\ Len(qa_pairs) >= 1

(***************************************************************************)
(* Properties of build_points and main (SpecIngest).                       *)
(***************************************************************************)
QuestionsOf(pts) == { pts[i].payload.question : i \in DOMAIN pts }

\* C3: the id of a point depends on its question text only: two points of a
\* run with the same question have the same id, the same as the point an
\* earlier run left for that question; so the upsert adds at most one entry
\* per question text not stored before, and overwrites the seqvars.
C3_PointIdIsAFunctionOfTheQuestion ==
    /\ [](\A i, j \in DOMAIN points :
            points[i].payload.question = points[j].payload.question
                => points[i].id = points[j].id)
    /\ [](\A i \in DOMAIN points :
            points[i].payload.question = OldPoint.payload.question
                => points[i].id = OldPoint.id)
    /\ [][collection'.stored # collection.stored =>
            /\ \A i \in DOMAIN points :
                 /\ points[i].id \in DOMAIN collection'.stored
                 /\ collection'.stored[points[i].id].id = points[i].id
            /\ Cardinality(DOMAIN collection'.stored) <=
                 Cardinality(QuestionsOf(collection.stored) \cup QuestionsOf(points))]_vars

\* two records with the same question and different answers were upserted
\* over the point of an earlier run, and the collection holds one entry
C3_Witness ==
    /\ m_pc = "done"
    /\ exit_code = 0
    /\ Len(points) = 2
    /\ points[1].payload.question = OldPoint.payload.question
    /\ points[2].payload.question = OldPoint.payload.question
    /\ points[1].payload.answer # points[2].payload.answer
    /\ points[1].vector # points[2].vector
    /\ DOMAIN collection.stored = {OldPoint.id}
    /\ collection.stored[OldPoint.id] = points[2]

\* C9: after a failed extraction the run has called neither the embedding
\* provider nor the vector index and ends with status 1; every call of the
\* provider or the index comes after load_qa_pairs has returned.
C9_ExtractionFailureAbortsBeforeAnyCall ==
    /\ x_pc = "raised" =>
         /\ calls = 0
         /\ e_pc = "idle"
         /\ m_log = <<>>
         /\ collection \in InitialCollections
         /\ m_pc \in {"load", "done"}
         /\ m_pc = "done" => exit_code = 1
    /\ (calls > 0 \/ m_log # <<>> \/ e_pc # "idle") => x_pc = "returned"

\* a run has ended with status 1 on a table whose second question has no answer
C9_Witness ==
    /\ m_pc = "done"
    /\ exit_code = 1
    /\ x_pc = "raised"
    /\ x_err.kind = "MissingAnswer"
    /\ Len(qa_pairs) = 1

Upserts(log) == SelectSeq(log, LAMBDA c : c.op = "upsert")

\* C10: a run in which an embedding failed ends with status 1 without an
\* upsert; upsert is called at most once, after every record was embedded;
\* and without a successful upsert the collection holds what it held before.
C10_EmbeddingFailureAbortsTheBatch ==
    /\ (m_pc = "done" /\ e_result.kind \notin {"none", "vector"}) =>
         /\ exit_code = 1
         /\ Upserts(m_log) = <<>>
    /\ Len(Upserts(m_log)) <= 1
    /\ Upserts(m_log) # <<>> =>
         /\ x_pc = "returned"
         /\ Len(points) = Len(qa_pairs)
         /\ m_pc = "done"
    /\ (\A i \in DOMAIN m_log : m_log[i] # IndexCall("upsert", "ok")) =>
         collection \in InitialCollections

\* the embedding of the second record failed after its retries, the point of
\* the first record being built already
C10_Witness ==
    /\ m_pc = "done"
    /\ exit_code = 1
    /\ e_result.kind = "EmbeddingError"
    /\ Len(qa_pairs) = 2
    /\ Len(points) = 1
    /\ Upserts(m_log) = <<>>

(***************************************************************************)
(* Properties of Embedder.embed (SpecEmbed).                               *)
(***************************************************************************)
\* C4: embed("") raises EmbeddingError with no provider call and no sleep
\* made: the input check comes before the first attempt.
C4_EmptyTextRaisesBeforeAnyCall ==
    (e_text = <<>> /\ e_pc # "start") =>
        /\ e_pc = "raised"
        /\ e_result.kind = "EmbeddingError"
        /\ e_log = <<>>
        /\ calls = 0
        /\ attempt = 0

\* embed("") has raised
C4_Witness == e_text = <<>> /\ e_pc = "raised"

\* every provider call so far failed with a provider or transport failure
AllCallsFailed(log) ==
    \A i \in DOMAIN log : log[i].ev = "call" => log[i].outcome \in {"OpenAIError", "HTTPError"}

Shape(log) == [i \in DOMAIN log |-> <<log[i].ev, log[i].delay>>]

\* C5: while every provider call fails, embed of a non-empty text never
\* returns and never makes a fourth call; it ends raising EmbeddingError
\* after call, wait 2, call, wait 4, call, with no wait after the third call.
C5_ThreeCallsBackoffTwoThenFour ==
    (e_text # <<>> /\ AllCallsFailed(e_log)) =>
        /\ e_pc # "returned"
        /\ Len(SelectSeq(e_log, IsCall)) <= 3
        /\ calls = Len(SelectSeq(e_log, IsCall))
        /\ e_pc = "raised" =>
             /\ e_result.kind = "EmbeddingError"
             /\ Shape(e_log) = << <<"call", 0>>, <<"sleep", 2>>, <<"call", 0>>,
                                  <<"sleep", 4>>, <<"call", 0>> >>

\* three calls have failed, one of them a transport failure, and embed raised
C5_Witness ==
    /\ e_pc = "raised"
    /\ e_text # <<>>
    /\ calls = 3
    /\ AllCallsFailed(e_log)
    /\ \E i \in DOMAIN e_log : e_log[i].outcome = "HTTPError"
    /\ \E i \in DOMAIN e_log : e_log[i].outcome = "OpenAIError"

(***************************************************************************)
(* Properties of Retriever.search (SpecSearch).                            *)
(***************************************************************************)
\* C6: with zero hits search returns the fixed text as answer, the score
\* None, the low-confidence warning, and no other key.
C6_ZeroHitsResult ==
    (s_pc \in {"returned", "raised"} /\ s_reply.k = "hits" /\ s_reply.hits = <<>>) =>
        /\ s_pc = "returned"
        /\ DOMAIN s_result.resp = {"answer", "score", "warning"}
        /\ s_result.resp["answer"] = Some(NoResultsText)
        /\ s_result.resp["score"] = None
        /\ s_result.resp["warning"] = Some(LowConfidenceWarning)

\* a search with zero hits has returned
C6_Witness == s_pc = "returned" /\ s_reply.k = "hits" /\ s_reply.hits = <<>>

\* the reply with the score of its first hit replaced
WithTopScore(reply, score) ==
    [reply EXCEPT !.hits = [@ EXCEPT ![1] = [@ EXCEPT !.score = score]]]

\* C7: with one hit or more, search returns (it does not raise), the result
\* has a warning exactly when the top score is None or below the threshold,
\* and its answer is the one search gives for any other score of that hit.
C7_WarningIffScoreBelowThreshold ==
    (s_pc \in {"returned", "raised"} /\ s_reply.k = "hits" /\ s_reply.hits # <<>>) =>
        /\ s_pc = "returned"
        /\ "answer" \in DOMAIN s_result.resp
        /\ "warning" \in DOMAIN s_result.resp <=>
             (~s_reply.hits[1].score.some \/ s_reply.hits[1].score.val < 82)
        /\ \A sc \in HitScores :
             /\ Search(WithTopScore(s_reply, sc)).kind = "dict"
             /\ Search(WithTopScore(s_reply, sc)).resp["answer"] = s_result.resp["answer"]

\* a hit with a score equal to the threshold was returned without a warning
C7_Witness ==
    /\ s_pc = "returned"
    /\ s_reply.hits # <<>>
    /\ s_reply.hits[1].score = Some(82)
    /\ s_reply.hits[1].payload.some
    /\ "warning" \notin DOMAIN s_result.resp
    /\ s_result.resp["answer"] = Some("A1")

(***************************************************************************)
(* Properties of query_endpoint (SpecQuery).                               *)
(***************************************************************************)
\* C8: a request ends with an answer or with the service-unavailable signal,
\* whatever way the provider or the index failed.
C8_AnswerOrServiceUnavailable ==
    q_pc = "done" => q_outcome.kind \in {"answer", "HTTP_503"}

(***************************************************************************)
(* Further properties of build_points (SpecIngest).                        *)
(***************************************************************************)
\* the payload build_points is to give the point of a record
PayloadOf(rec) ==
    [question |-> rec.question, answer |-> rec.answer,
     source |-> rec.source, group_id |-> rec.group_id]

\* C11: build_points embeds the records one after the other, each once, on
\* its question text; the point appended when embed returns carries the
\* vector returned and the four fields of that record, nothing else; the
\* upsert is made of one point per record, in the order of the records.
C11_OnePointPerRecordInOrder ==
    /\ [](m_pc \in {"build", "embedding"} => Len(points) = m_i - 1)
    /\ [](m_pc = "embedding" => (m_i \in DOMAIN qa_pairs /\ e_text = qa_pairs[m_i].question))
    /\ [](\A i \in DOMAIN points :
            /\ i \in DOMAIN qa_pairs
            /\ points[i].payload = PayloadOf(qa_pairs[i])
            /\ DOMAIN points[i].payload = {"question", "answer", "source", "group_id"})
    /\ [][(m_pc = "embedding" /\ e_result.kind = "vector") =>
            /\ Len(points') = Len(points) + 1
            /\ SubSeq(points', 1, Len(points)) = points
            /\ points'[m_i].vector = e_result.vec
            /\ m_i' = m_i + 1]_vars
    /\ [][(e_pc # "start" /\ e_pc' = "start") =>
            (m_pc = "build" /\ Len(points) = m_i - 1 /\ e_text' = qa_pairs[m_i].question)]_vars
    /\ []((\E i \in DOMAIN m_log : m_log[i].op = "upsert") => Len(points) = Len(qa_pairs))

\* two records were embedded, with different vectors, and upserted
C11_Witness ==
    /\ m_pc = "done"
    /\ exit_code = 0
    /\ Len(qa_pairs) = 2
    /\ Len(points) = 2
    /\ points[1].vector # points[2].vector
    /\ points[1].payload.question # points[2].payload.question
    /\ points[2].payload = PayloadOf(qa_pairs[2])

(***************************************************************************)
(* Further properties of load_qa_pairs (SpecExtract).                      *)
(***************************************************************************)
\* C12: extraction fails on the group id only if neither row of the pair
\* holds an integer: a pair whose question row holds no integer takes the
\* integer of its answer row.
C12_FailsOnlyIfNeitherRowHasAnInteger ==
    (x_pc = "raised" /\ x_err.kind = "InvalidGroup") =>
        /\ table.rows[idx + 1].b.t # "int"
        /\ table.rows[idx + 2].b.t # "int"

\* the record was made of the rows r and r + 1 (1-based)
MadeOfRows(rec, r) ==
    rec.source = <<"xlsx_row_C">> \o Digits(r) \o <<"_C">> \o Digits(r + 1)

\* C13: the cursor never moves back and never passes the end; a step moves
\* it by 2 and adds one record, or moves it by 1 over a row that is no
\* question marker and adds nothing, or ends the scan; while the scan is
\* not over the next step is defined, so the scan ends after at most one
\* step per row and one more.  The records are made of disjoint row pairs in
\* increasing order, a repeated question text included.
C13_CursorAdvancesByTwoOrOne ==
    /\ [](idx <= Len(ColC(table)))
    /\ [](x_pc = "scan" =>
            IF idx < Len(ColC(table))
            THEN ScanStep(table, idx, qa_pairs).pc \in {"scan", "raised"}
            ELSE ScanFinish(idx, qa_pairs).pc \in {"returned", "raised"})
    /\ [][x_pc = "scan" =>
            \/ /\ x_pc' = "scan"
               /\ idx' = idx + 2
               /\ Len(qa_pairs') = Len(qa_pairs) + 1
               /\ SubSeq(qa_pairs', 1, Len(qa_pairs)) = qa_pairs
               /\ MadeOfRows(qa_pairs'[Len(qa_pairs')], idx + 1)
            \/ /\ x_pc' = "scan"
               /\ idx' = idx + 1
               /\ qa_pairs' = qa_pairs
               /\ ~HasPrefix(ColC(table)[idx + 1], {"Q", "q"})
            \/ /\ x_pc' \in {"returned", "raised"}
               /\ idx' = idx
               /\ qa_pairs' = qa_pairs]_vars
    /\ [][(x_pc = "scan" /\ idx < Len(ColC(table))
             /\ ~HasPrefix(ColC(table)[idx + 1], {"Q", "q"}))
            => (x_pc' = "scan" /\ idx' = idx + 1 /\ qa_pairs' = qa_pairs)]_vars
    /\ [][(x_pc \in {"returned", "raised"}) => UNCHANGED xvars]_vars
    /\ [](\A k \in DOMAIN qa_pairs :
            \E r \in 1..(Len(table.rows) - 1) :
                /\ MadeOfRows(qa_pairs[k], r)
                /\ r + 1 <= idx
                /\ k > 1 => \E r0 \in 1..(r - 2) : MadeOfRows(qa_pairs[k - 1], r0))

\* two pairs with the same question text were both extracted, each from its
\* own two rows
C13_Witness ==
    /\ x_pc = "returned"
    /\ idx = 4
    /\ Len(qa_pairs) = 2
    /\ qa_pairs[1].question = qa_pairs[2].question
    /\ MadeOfRows(qa_pairs[1], 1)
    /\ MadeOfRows(qa_pairs[2], 3)

\* C14: load_qa_pairs returns at least one record, every record with a
\* question and an answer that are trimmed and non-empty, an integer group
\* id and a source no other record has; a table without a question marker
\* (an empty one, one with fewer than three columns) does not return.
C14_NeverReturnsEmptyOrPartial ==
    /\ x_pc = "returned" =>
         /\ Len(qa_pairs) >= 1
         /\ \A i \in DOMAIN qa_pairs :
              /\ qa_pairs[i].question # <<>>
              /\ qa_pairs[i].answer # <<>>
              /\ Strip(qa_pairs[i].question) = qa_pairs[i].question
              /\ Strip(qa_pairs[i].answer) = qa_pairs[i].answer
              /\ qa_pairs[i].group_id \in Int
              /\ \A j \in DOMAIN qa_pairs : i # j => qa_pairs[i].source # qa_pairs[j].source
    /\ (\A i \in 1..Len(ColC(table)) : ~HasPrefix(ColC(table)[i], {"Q", "q"})) =>
         /\ x_pc # "returned"
         /\ x_pc = "raised" => x_err.kind = "NoPairs"

\* a sheet with two columns and two rows was refused for having no pair
C14_Witness ==
    /\ x_pc = "raised"
    /\ x_err.kind = "NoPairs"
    /\ table.ncols = 2
    /\ Len(table.rows) = 2

(***************************************************************************)
(* SpecStartup: the construction of the module's Retriever (main.py line   *)
(* 21) and the searches made with it afterwards.                           *)
(***************************************************************************)
StartupInit ==
    /\ ExtractIdle
    /\ EmbedIdle
    /\ SearchIdle
    /\ QueryIdle
    /\ ConcurrentIdle
    /\ collection \in StartupCollections
    /\ m_pc = "idle"
    /\ m_i = 0
    /\ points = <<>>
    /\ m_log = <<>>
    /\ exit_code = -1
    /\ r_pc = "init"
    /\ r_err = "none"
    /\ r_log = <<>>

\* retriever.py lines 23-47: the constructor
RetrieverInit ==
    /\ r_pc = "init"
    /\ \E exists_outcome \in ExistsOutcomes, create_outcome \in CreateOutcomes :
         LET st == EnsureCollection(collection, exists_outcome, create_outcome)
         IN  /\ r_pc' = st.pc
             /\ r_err' = st.err
             /\ r_log' = st.log
             /\ collection' = st.collection
    /\ UNCHANGED <<m_pc, m_i, points, m_log, exit_code, xvars, evars, svars, qvars, cvars>>

\* main.py lines 77-78: a request calls search on the object line 21 has bound
RetrieverSearch ==
    /\ r_pc = "ready"
    /\ s_pc = "idle"
    /\ s_pc' = "call"
    /\ s_vector' \in Vectors
    /\ UNCHANGED <<s_reply, s_result, s_calls, xvars, evars, qvars, mvars, rvars, cvars>>

StartupNext ==
    \/ RetrieverInit
    \/ RetrieverSearch
    \/ SearchCall

SpecStartup == StartupInit /\ [][StartupNext]_vars

\* C15: a constructed Retriever has an index of 1536 dimensions and cosine
\* distance; create_collection is called only after collection_exists said
\* absent; a constructor that fails raises RetrievalError; search is called
\* only on a constructed Retriever.
C15_ConstructedOnlyOnEnsuredIndex ==
    /\ r_pc = "ready" =>
         /\ collection.exists
         /\ collection.size = VectorSize
         /\ collection.distance = "Cosine"
    /\ (\E i \in DOMAIN r_log : r_log[i].op = "create_collection") =>
         /\ Len(r_log) = 2
         /\ r_log[1] = IndexCall("collection_exists", "False")
    /\ r_pc = "raised" => r_err = "RetrievalError"
    /\ s_pc # "idle" => r_pc = "ready"

(***************************************************************************)
(* Further properties of Retriever.search (SpecSearch).                    *)
(***************************************************************************)
\* the payload of a hit as a dict, the missing payload being the empty one
PayloadDict(hit) == IF hit.payload.some THEN hit.payload.d ELSE <<>>

\* the hit's payload has an answer that is not the empty string
HasAnswer(hit) ==
    "answer" \in DOMAIN PayloadDict(hit) /\ PayloadDict(hit)["answer"] # ""

\* C16: with one hit or more the result is made of the first hit: its score,
\* its payload's answer or the fixed text when the payload is missing or has
\* no non-empty answer, its question and source exactly when the payload has
\* them; it is the result of the reply that holds the first hit only.
C16_ResultIsTheFirstHitAlone ==
    (s_pc \in {"returned", "raised"} /\ s_reply.k = "hits" /\ s_reply.hits # <<>>) =>
        LET top == s_reply.hits[1]
            resp == s_result.resp
        IN  /\ s_pc = "returned"
            /\ DOMAIN resp \subseteq {"answer", "score", "question", "source", "warning"}
            /\ resp["score"] = top.score
            /\ resp["answer"] = (IF HasAnswer(top) THEN Some(PayloadDict(top)["answer"])
                                 ELSE Some(NoResultsText))
            /\ \A k \in {"question", "source"} :
                 /\ k \in DOMAIN resp <=> k \in DOMAIN PayloadDict(top)
                 /\ k \in DOMAIN resp => resp[k] = Some(PayloadDict(top)[k])
            /\ s_result = Search(IndexReply("hits", <<top>>))

\* the first of two hits has the lower score and another payload, and the
\* result is made of it
C16_Witness ==
    /\ s_pc = "returned"
    /\ Len(s_reply.hits) = 2
    /\ s_reply.hits[1].score = Some(70)
    /\ s_reply.hits[2].score = Some(90)
    /\ HasAnswer(s_reply.hits[1])
    /\ HasAnswer(s_reply.hits[2])
    /\ PayloadDict(s_reply.hits[1]) # PayloadDict(s_reply.hits[2])
    /\ s_result.resp["score"] = Some(70)
    /\ "source" \in DOMAIN s_result.resp

\* C20: a first hit with a score at or above the threshold and no answer to
\* give yields the fixed text, that score and no warning; a result with the
\* fixed text has a warning exactly when there was no hit or the first hit's
\* score is None or below the threshold.
C20_WarningIndependentOfAnswer ==
    (s_pc = "returned" /\ s_reply.k = "hits") =>
        LET resp == s_result.resp
            hits == s_reply.hits
        IN  /\ (/\ hits # <<>>
                /\ hits[1].score.some
                /\ hits[1].score.val >= 82
                /\ ~HasAnswer(hits[1]))
                  => /\ resp["answer"] = Some(NoResultsText)
                     /\ resp["score"] = hits[1].score
                     /\ "warning" \notin DOMAIN resp
            /\ resp["answer"] = Some(NoResultsText) =>
                 ("warning" \in DOMAIN resp <=>
                     \/ hits = <<>>
                     \/ ~hits[1].score.some
                     \/ hits[1].score.val < 82)

\* a hit with score 0.90 and no payload was answered with the fixed text and
\* no warning
C20_Witness ==
    /\ s_pc = "returned"
    /\ s_reply.hits # <<>>
    /\ s_reply.hits[1].score = Some(90)
    /\ ~s_reply.hits[1].payload.some
    /\ s_result.resp["answer"] = Some(NoResultsText)
    /\ "warning" \notin DOMAIN s_result.resp

(***************************************************************************)
(* Further properties of query_endpoint (SpecQuery).                       *)
(***************************************************************************)
\* C17: a request makes at most three provider calls and at most one search
\* call; search is called only with the vector embed returned, and not at
\* all when embed raised; once embed or search has ended it is not entered
\* again.
C17_SearchAtMostOnceAfterEmbed ==
    /\ [](s_calls <= 1 /\ calls <= 3)
    /\ [](s_pc # "idle" =>
            (e_pc = "returned" /\ e_result.kind = "vector" /\ s_vector = e_result.vec))
    /\ [](e_pc = "raised" => (s_pc = "idle" /\ s_calls = 0))
    /\ []((q_pc = "done" /\ s_pc = "raised") =>
            (s_calls = 1 /\ q_outcome.kind = "HTTP_503"))
    /\ [][(e_pc \in {"returned", "raised"}) => UNCHANGED evars]_vars
    /\ [][(s_pc \in {"returned", "raised"}) => UNCHANGED svars]_vars

\* embed returned at its third call, the one search failed, the request ended
C17_Witness ==
    /\ q_pc = "done"
    /\ calls = 3
    /\ e_pc = "returned"
    /\ s_pc = "raised"
    /\ s_calls = 1

(***************************************************************************)
(* SpecEmbedFair: embed, each step of it taken in the end (the thread      *)
(* runs; a provider call returns or fails within its timeout of 30 s).     *)
(***************************************************************************)
SpecEmbedFair == SpecEmbed /\ WF_vars(EmbedNext)

RECURSIVE TotalWait(_)
TotalWait(log) == IF log = <<>> THEN 0 ELSE Head(log).delay + TotalWait(Tail(log))

\* C18: embed ends; it makes at most three calls and two waits; when it
\* returns, the last event is a successful call, the only one, its vector is
\* the one returned, the calls before it failed, and with k calls there were
\* k - 1 waits, of 0, 2 or 6 seconds in all; after the end nothing happens.
C18_EmbedTerminatesWithinThreeCalls ==
    /\ <>(e_pc \in {"returned", "raised"})
    /\ [](/\ Len(SelectSeq(e_log, IsCall)) <= 3
          /\ Len(SelectSeq(e_log, IsSleep)) <= 2
          /\ calls = Len(SelectSeq(e_log, IsCall)))
    /\ [](e_pc = "returned" =>
            LET k == Len(SelectSeq(e_log, IsCall))
            IN  /\ k \in 1..3
                /\ k = attempt
                /\ Len(e_log) = 2 * k - 1
                /\ e_log[Len(e_log)].ev = "call"
                /\ e_log[Len(e_log)].outcome = "ok"
                /\ e_result = [kind |-> "vector", vec |-> e_log[Len(e_log)].vec]
                /\ AllCallsFailed(SubSeq(e_log, 1, Len(e_log) - 1))
                /\ Len(SelectSeq(e_log, IsSleep)) = k - 1
                /\ TotalWait(e_log) = (CASE k = 1 -> 0 [] k = 2 -> 2 [] k = 3 -> 6))
    /\ [][(e_pc \in {"returned", "raised"}) => UNCHANGED evars]_vars

\* embed returned the vector of its third call, after waits of 2 and 4
C18_Witness ==
    /\ e_pc = "returned"
    /\ attempt = 3
    /\ TotalWait(e_log) = 6
    /\ e_result.vec = "v2"
    /\ e_log[1].outcome = "HTTPError"

(***************************************************************************)
(* SpecConcurrent: NumInvocations requests handled at the same time by     *)
(* query_endpoint (embed and search run in the thread pool), their steps   *)
(* interleaved in every order.                                             *)
(***************************************************************************)
ConcurrentInit ==
    /\ ExtractIdle
    /\ EmbedIdle
    /\ SearchIdle
    /\ QueryIdle
    /\ MainIdle
    /\ RetrieverIdle
    /\ inv \in [Invocations -> { NewInvocation(t) : t \in ConcurrentTexts }]
    /\ objects = Singletons

\* the variables of the parts that do not run here
seqvars == <<xvars, evars, svars, qvars, mvars, rvars>>

\* embed lines 33-34, in the request p
ConcurrentEmbedCheck ==
    /\ \E p \in Invocations :
         /\ inv[p].pc = "embed"
         /\ inv[p].e.pc = "start"
         /\ inv' = [inv EXCEPT ![p].e = EmbedCheckInput(inv[p].text, inv[p].e.log)]
    /\ UNCHANGED <<objects, seqvars>>

\* embed lines 36-52, one pass through the loop, in the request p
ConcurrentEmbedAttempt ==
    /\ \E p \in Invocations, outcome \in ConcurrentOutcomes :
         /\ inv[p].pc = "embed"
         /\ inv[p].e.pc = "try"
         /\ inv' = [inv EXCEPT ![p].e =
                       EmbedIteration(LoopAttempt(inv, p), inv[p].e.log, outcome)]
    /\ UNCHANGED <<objects, seqvars>>

\* main.py lines 68-75, in the request p
ConcurrentEmbedDone ==
    /\ \E p \in Invocations :
         /\ inv[p].pc = "embed"
         /\ inv[p].e.pc \in {"returned", "raised"}
         /\ inv' = [inv EXCEPT ![p] =
                       IF inv[p].e.result.kind = "vector"
                       THEN [@ EXCEPT !.pc = "search"]
                       ELSE [@ EXCEPT !.pc = "done",
                                      !.outcome = AfterEmbed(inv[p].e.result)]]
    /\ UNCHANGED <<objects, seqvars>>

\* retriever.py lines 49-87, in the request p
ConcurrentSearch ==
    /\ \E p \in Invocations, reply \in ConcurrentReplies :
         /\ inv[p].pc = "search"
         /\ inv[p].s = NoSearchResult
         /\ inv' = [inv EXCEPT ![p].reply = reply, ![p].s = Search(reply)]
    /\ UNCHANGED <<objects, seqvars>>

\* main.py lines 77-91, in the request p
ConcurrentSearchDone ==
    /\ \E p \in Invocations :
         /\ inv[p].pc = "search"
         /\ inv[p].s # NoSearchResult
         /\ inv' = [inv EXCEPT ![p].pc = "done", ![p].outcome = AfterSearch(inv[p].s)]
    /\ UNCHANGED <<objects, seqvars>>

ConcurrentNext ==
    \/ ConcurrentEmbedCheck
    \/ ConcurrentEmbedAttempt
    \/ ConcurrentEmbedDone
    \/ ConcurrentSearch
    \/ ConcurrentSearchDone

SpecConcurrent == ConcurrentInit /\ [][ConcurrentNext]_vars

\* what the provider answered to the calls of a log, in order
AnswersOf(log) ==
    LET callsOf == SelectSeq(log, IsCall)
    IN  [i \in DOMAIN callsOf |-> Outcome(callsOf[i].outcome, callsOf[i].vec)]

\* embed run alone from the state st, the provider answering `answers`
RECURSIVE AloneFrom(_, _)
AloneFrom(st, answers) ==
    IF answers = <<>> \/ st.pc # "try"
    THEN st
    ELSE AloneFrom(EmbedIteration(st.attempt, st.log, Head(answers)), Tail(answers))

\* embed(text) run alone
EmbedAlone(text, answers) == AloneFrom(EmbedCheckInput(text, <<>>), answers)

\* what a request on its own returns, embed ending with `result` and the
\* index answering `reply`
OutcomeAlone(result, reply) ==
    IF result.kind = "vector" THEN AfterSearch(Search(reply)) ELSE AfterEmbed(result)

\* C19: no step of a request writes a field of the embedder or of the
\* retriever; in every interleaving the embed of a request is where embed
\* run alone is after the same provider answers, a request ends with what
\* it returns alone for the same answers and index reply, and embed gives up
\* on a non-empty text only after three failed calls of its own.
C19_InvocationsDoNotInterfere ==
    /\ [][objects' = objects]_vars
    /\ [](objects = Singletons)
    /\ [](\A p \in Invocations :
            /\ inv[p].e.pc # "start" =>
                 inv[p].e = EmbedAlone(inv[p].text, AnswersOf(inv[p].e.log))
            /\ inv[p].pc = "done" =>
                 inv[p].outcome = OutcomeAlone(inv[p].e.result, inv[p].reply)
            /\ (inv[p].e.result.kind = "EmbeddingError" /\ inv[p].text # <<>>) =>
                 /\ Len(SelectSeq(inv[p].e.log, IsCall)) = 3
                 /\ AllCallsFailed(inv[p].e.log))
    /\ [][\A p \in Invocations :
            inv'[p] # inv[p] => \A q \in Invocations \ {p} : inv'[q] = inv[q]]_vars

\* one request has used its three calls and failed while another, started
\* with it, got its vector at its second call and its answer
C19_Witness ==
    \E p, q \in Invocations :
        /\ p # q
        /\ inv[p].pc = "done"
        /\ inv[p].outcome.kind = "HTTP_503"
        /\ Len(SelectSeq(inv[p].e.log, IsCall)) = 3
        /\ inv[q].pc = "done"
        /\ inv[q].outcome.kind = "answer"
        /\ inv[q].e.attempt = 2
====
